---------------------------- MODULE Spec2Model ----------------------------
(***************************************************************************)
(* GPU particle simulation of soulhit-3d-experience: world/Particles.js    *)
(* driving three.js' GPUComputationRenderer with the two compute kernels   *)
(* of shaders/particles (velocity, position).                              *)
(*                                                                         *)
(* Numbers are fixed point.  Units:                                        *)
(*   length, velocity, force   1/100 of a world unit (per s, per s^2)      *)
(*   time                      milliseconds                                *)
(*   lifetime                  1/1000000 (1000000 is lifetime 1.0)         *)
(*   hash values, uv, factors  1/1000 (1000 is 1.0)                        *)
(* Divisions truncate toward zero, so an inequality that holds over the    *)
(* reals is not broken by rounding.                                        *)
(***************************************************************************)
EXTENDS Integers, Sequences, FiniteSets, TLC

(***************************************************************************)
(* Bounds of the model.                                                    *)
(***************************************************************************)
\* texture is TextureSize x TextureSize texels (Particles.js option textureSize)
TextureSize == 2
\* number of update() calls explored
MaxSteps == 2
\* number of dispose() calls explored
MaxDisposeCalls == 2
\* animation frames requested in one run
MaxFrames == 4
\* callback invocations after which no further emit() begins, and emit() nesting
MaxCalls == 2
MaxDepth == 2

(***************************************************************************)
(* Configuration defaults (Particles.js constructor), in model units.      *)
(***************************************************************************)
boundsRadius == 1200
lifetimeMin == 3000
lifetimeMax == 8000
flowFieldStrength == 200
damping == 3
turbulence == 80
mouseRadius == 300
mouseStrength == 500
\* this.textureSize, this.count as the constructor computes them (lines 90, 93)
SizeAndCount == [textureSize |-> TextureSize, count |-> TextureSize * TextureSize]
\* the fields the constructor stores for the options o: settings, with
\* textureSize and count
Stored(o) ==
    [maxVelocity |-> o.maxVelocity, lifetimeMin |-> o.lifetimeMin,
     lifetimeMax |-> o.lifetimeMax, textureSize |-> SizeAndCount.textureSize,
     count |-> SizeAndCount.count]
\* the default options
DefaultOptions ==
    { Stored([maxVelocity |-> 500, lifetimeMin |-> lifetimeMin,
              lifetimeMax |-> lifetimeMax]) }
\* options a simulation is constructed with: the defaults, and a slow, short-lived
\* variant (maxVelocity 0.5, lifetimes 1 s to 2 s)
ConfigOptions ==
    { Stored([maxVelocity |-> 500, lifetimeMin |-> lifetimeMin,
              lifetimeMax |-> lifetimeMax]),
      Stored([maxVelocity |-> 50, lifetimeMin |-> 1000, lifetimeMax |-> 2000]) }
\* options with lifespans of a step or two of 0.1 s (lifetimes 0.06 s to 0.14 s)
ShortLivedOptions ==
    { Stored([maxVelocity |-> 500, lifetimeMin |-> 60, lifetimeMax |-> 140]) }
\* options with the lifetimes the wrong way round (lifetimeMin 8 s, lifetimeMax 3 s)
InvalidConfigOptions ==
    { Stored([maxVelocity |-> 500, lifetimeMin |-> lifetimeMax,
              lifetimeMax |-> lifetimeMin]) }

(***************************************************************************)
(* Inputs drawn by the environment.                                        *)
(***************************************************************************)
\* deltaTime arguments of update(), ms: a clock stepped back, no time passed,
\* a 60 fps frame, a stalled frame
DeltaInputs == {-16, 0, 16, 250}
\* elapsedTime arguments of update(), ms
ElapsedInputs == {16, 5000}
\* the update() arguments of the runs that interleave update() with host events
\* or with single invocations: a 60 fps frame and a stalled frame, at 5 s
FrameDeltaInputs == {16, 250}
FrameElapsedInputs == {5000}
\* values of the noise fields (fbmCurlNoise, snoise) at a particle
NoiseSamples ==
    { [flow |-> <<0, 0, 0>>, turb |-> <<0, 0, 0>>],
      [flow |-> <<3000, -4000, 0>>, turb |-> <<100, -100, 50>>] }
\* Math.random() draws of one particle's seeding, 1/1000:
\* theta, phi, radius, lifetime, vx, vy, vz
SeedSamples ==
    << [theta |-> 0,   phi |-> 500, r |-> 999, life |-> 5,   v |-> <<0, 999, 500>>],
       [theta |-> 400, phi |-> 0,   r |-> 125, life |-> 999, v |-> <<999, 0, 250>>],
       [theta |-> 700, phi |-> 900, r |-> 500, life |-> 0,   v |-> <<500, 500, 500>>] >>
\* the draws of texel t: each texel is seeded with each sample, one rotation of
\* the samples over the texels per initial state
SeedOf(offset, t) == SeedSamples[((t + offset) % Len(SeedSamples)) + 1]
\* inputs of one position-kernel invocation: position, lifetime 1/1000, velocity.
\* Far out on the x axis at rest; just beyond 1.5 boundsRadius moving inward
\* at maxVelocity; just beyond moving outward; well inside
ProbeSamples ==
    << [pos |-> <<10000, 0, 0>>, life |-> 900, v |-> <<0, 0, 0>>],
       [pos |-> <<1810, 0, 0>>,  life |-> 900, v |-> <<-500, 0, 0>>],
       [pos |-> <<1810, 0, 0>>,  life |-> 900, v |-> <<300, 0, 0>>],
       [pos |-> <<600, 0, 0>>,   life |-> 500, v |-> <<0, 100, 0>>] >>
\* the probe of texel t, one rotation of the probes over the texels per initial state
ProbeOf(offset, t) == ProbeSamples[((t + offset) % Len(ProbeSamples)) + 1]
\* particles that have drifted to the rim, |position| just under 1.5 boundsRadius:
\* moving outward, moving inward, at rest; and one well inside
DriftedSamples ==
    << [pos |-> <<1790, 0, 0>>, life |-> 900, v |-> <<300, 0, 0>>],
       [pos |-> <<0, 1790, 0>>, life |-> 900, v |-> <<0, -300, 0>>],
       [pos |-> <<0, 0, 1800>>, life |-> 900, v |-> <<0, 0, 0>>],
       [pos |-> <<600, 0, 0>>,  life |-> 500, v |-> <<0, 100, 0>>] >>
DriftedOf(offset, t) == DriftedSamples[((t + offset) % Len(DriftedSamples)) + 1]
\* window.devicePixelRatio at a resize event, 1/100
PixelRatioInputs == {100, 300}
\* pointer positions handed to setMousePosition()
MouseInputs == { <<100, 0, 0>> }

Texels == 0 .. (TextureSize * TextureSize - 1)

\* event names and callbacks an emitter is driven with
Events == {"tick", "update"}
Callbacks == {"first", "second"}
\* a listener in the emitter's Set: the callback itself (on) or the onceCallback
\* closure once() wraps around it
Listeners == {"on", "once"} \X Callbacks
\* what a callback does when it is invoked: return, throw, or emit the event it
\* is being invoked for and then return
Behaviours == {"returns", "throws", "emits"}

(***************************************************************************)
(* Arithmetic helpers.                                                     *)
(***************************************************************************)
\* a / b truncated toward zero, b > 0
Trunc(a, b) == IF a >= 0 THEN a \div b ELSE -((-a) \div b)

\* variant: the first argument, unclamped
MinUnclamped(a, b) == a

Min(a, b) == IF a < b THEN a ELSE b

clamp(x, lo, hi) == IF x < lo THEN lo ELSE IF x > hi THEN hi ELSE x

RECURSIVE SqrtSearch(_, _, _)
SqrtSearch(n, lo, hi) ==
    IF lo >= hi THEN lo
    ELSE LET mid == (lo + hi + 1) \div 2
         IN  IF mid * mid <= n THEN SqrtSearch(n, mid, hi)
             ELSE SqrtSearch(n, lo, mid - 1)

\* floor of the square root
FloorSqrt(n) == SqrtSearch(n, 0, 46340)

\* ceiling of the square root
CeilSqrt(n) == LET r == FloorSqrt(n) IN IF r * r = n THEN r ELSE r + 1

RECURSIVE CbrtSearch(_, _, _)
CbrtSearch(n, lo, hi) ==
    IF lo >= hi THEN lo
    ELSE LET mid == (lo + hi + 1) \div 2
         IN  IF mid * mid * mid <= n THEN CbrtSearch(n, mid, hi)
             ELSE CbrtSearch(n, lo, mid - 1)

\* pow(z, 0.333333) of z in 1/1000, result in 1/1000
Cbrt(z) == CbrtSearch(z * 1000000, 0, 1000)

lengthSq(v) == v[1] * v[1] + v[2] * v[2] + v[3] * v[3]

VAdd(a, b) == <<a[1] + b[1], a[2] + b[2], a[3] + b[3]>>

VSub(a, b) == <<a[1] - b[1], a[2] - b[2], a[3] - b[3]>>

\* v * num / den, componentwise
VScale(v, num, den) ==
    <<Trunc(v[1] * num, den), Trunc(v[2] * num, den), Trunc(v[3] * num, den)>>

\* GLSL smoothstep(e0, e1, x), result in 1/1000
smoothstep(e0, e1, x) ==
    LET t == clamp(Trunc((x - e0) * 1000, e1 - e0), 0, 1000)
    IN  Trunc(Trunc(t * t, 1000) * (3000 - 2 * t), 1000)

\* GLSL mix(a, b, t), t in 1/1000
mix(a, b, t) == a + Trunc((b - a) * t, 1000)

\* fract(sin(d) * 43758.5453): a value in [0, 1) fixed by d.  The sine is
\* replaced by a modular scramble with the same range and the same
\* dependence on d alone.
FractSin(d) == ((d % 9973) * 43758) % 1000

\* unit vectors (cos, sin) in 1/1000 at twelve angles of a turn whose cosine
\* and sine are rational
CosSin ==
    << <<1000, 0>>, <<800, 600>>, <<600, 800>>, <<0, 1000>>,
       <<-600, 800>>, <<-800, 600>>, <<-1000, 0>>, <<-800, -600>>,
       <<-600, -800>>, <<0, -1000>>, <<600, -800>>, <<800, -600>> >>

\* the point at spherical coordinates theta = rand[1] * 2 PI,
\* phi = acos(2 rand[2] - 1), r = radius * cbrt(rand[3])
spherePoint(rand, radius) ==
    LET cs     == CosSin[(rand[1] * 12) \div 1000 + 1]
        cosPhi == 2 * rand[2] - 1000
        sinPhi == FloorSqrt(1000000 - cosPhi * cosPhi)
        r      == Trunc(radius * Cbrt(rand[3]), 1000)
        rs     == Trunc(r * sinPhi, 1000)
    IN  <<Trunc(rs * cs[1], 1000), Trunc(rs * cs[2], 1000), Trunc(r * cosPhi, 1000)>>

\* uv of texel i: gl_FragCoord.xy / resolution.xy, the centre of the texel
uvOf(i) ==
    << ((2 * (i % TextureSize) + 1) * 1000) \div (2 * TextureSize),
       ((2 * (i \div TextureSize) + 1) * 1000) \div (2 * TextureSize) >>

(***************************************************************************)
(* Position kernel (compute-position.glsl, lines 1-139).                   *)
(***************************************************************************)
hash(p) == FractSin(1271 * p[1] + 3117 * p[2])

hash3(p) ==
    << FractSin(1271 * p[1] + 3117 * p[2]),
       FractSin(2695 * p[1] + 1833 * p[2]),
       FractSin(4192 * p[1] + 3719 * p[2]) >>

\* variant: the radius is taken as a diameter
randomSpherePositionWide(seed, radius) == spherePoint(hash3(seed), 2 * radius)

randomSpherePosition(seed, radius) == spherePoint(hash3(seed), radius)

\* variant: one lifespan for every particle
lifespanGlobal(uv, u) == u.uLifetimeMax + 0 * uv[1]

\* the particle's lifespan in ms: mix(uLifetimeMin, uLifetimeMax, hash(uv))
lifespan(uv, u) == mix(u.uLifetimeMin, u.uLifetimeMax, hash(uv))

\* variant: the lifetime counts seconds, whatever the particle's lifespan
decayRateSeconds(uv, u) == Trunc(u.uDeltaTime * 1000000, 1000)

\* uDeltaTime / lifespan, in lifetime units
decayRate(uv, u) == Trunc(u.uDeltaTime * 1000000, lifespan(uv, u))

\* position + velocity * uDeltaTime
integratePosition(position, velocity, u) ==
    VAdd(position, VScale(velocity, u.uDeltaTime, 1000))

\* variant: only expiry resets
shouldResetLifetimeOnly(normalizedLifetime, newPosition, u) ==
    normalizedLifetime <= 0

\* variant: only the distance rule resets
shouldResetDistanceOnly(normalizedLifetime, newPosition, u) ==
    4 * lengthSq(newPosition) > 9 * u.uBoundsRadius * u.uBoundsRadius

\* normalizedLifetime <= 0.0 || length(newPosition) > uBoundsRadius * 1.5
shouldReset(normalizedLifetime, newPosition, u) ==
    \/ normalizedLifetime <= 0
    \/ 4 * lengthSq(newPosition) > 9 * u.uBoundsRadius * u.uBoundsRadius

\* uv + vec2(uTime * 0.1, uTime * 0.17)
resetSeed(uv, u) == <<uv[1] + Trunc(u.uTime, 10), uv[2] + Trunc(u.uTime * 17, 100)>>

\* main() of the position kernel for the texel at uv: posData is the texel of
\* texturePosition, velocity the texel of textureVelocity
computePosition(uv, posData, velocity, u) ==
    LET normalizedLifetime == posData.life - decayRate(uv, u)
        newPosition        == integratePosition(posData.pos, velocity, u)
    IN  IF shouldReset(normalizedLifetime, newPosition, u)
        THEN [pos  |-> randomSpherePosition(resetSeed(uv, u),
                                            Trunc(u.uBoundsRadius * 3, 10)),
              life |-> 1000000]
        ELSE [pos |-> newPosition, life |-> normalizedLifetime]

(***************************************************************************)
(* Velocity kernel (compute-position.glsl, lines 141-477).                 *)
(***************************************************************************)
\* hash3 of the velocity kernel: components in [-1, 1)
velocityHash3(p) ==
    << 2 * FractSin(1271 * p[1] + 3117 * p[2]) - 1000,
       2 * FractSin(2695 * p[1] + 1833 * p[2]) - 1000,
       2 * FractSin(4192 * p[1] + 3719 * p[2]) - 1000 >>

\* 1. flow field: fbmCurlNoise(...) * uFlowFieldStrength
flowFieldForce(noise, u) == VScale(noise.flow, u.uFlowFieldStrength, 100)

\* 2. mouse interaction
mouseForce(position, u) ==
    LET toMouse == VSub(u.uMousePosition, position)
        d2      == lengthSq(toMouse)
    IN  IF d2 < u.uMouseRadius * u.uMouseRadius /\ d2 > 0
        THEN LET mouseDir  == VScale(toMouse, 1000, CeilSqrt(d2))
                 falloff   == 1000 - smoothstep(0, u.uMouseRadius, FloorSqrt(d2))
                 influence == Trunc(falloff * falloff, 1000)
             IN  VScale(VScale(mouseDir, u.uMouseStrength, 1000), influence, 1000)
        ELSE <<0, 0, 0>>

\* 3. turbulence: snoise(...) * uTurbulence
turbulenceForce(noise, u) == VScale(noise.turb, u.uTurbulence, 100)

\* 4. centre attraction, with the kernel's literals 5.0 and 15.0
centerForce(position) ==
    LET d2 == lengthSq(position)
    IN  IF d2 > 500 * 500
        THEN LET toCenter     == VScale(position, -1000, CeilSqrt(d2))
                 pullStrength == Trunc(smoothstep(500, 1500, FloorSqrt(d2)) * 500, 1000)
             IN  VScale(toCenter, pullStrength, 10000)
        ELSE <<0, 0, 0>>

\* if (speed > uMaxVelocity) newVelocity = newVelocity / speed * uMaxVelocity
clampVelocity(v, u) ==
    IF lengthSq(v) > u.uMaxVelocity * u.uMaxVelocity
    THEN VScale(v, u.uMaxVelocity, CeilSqrt(lengthSq(v)))
    ELSE v

\* hash3(uv + vec2(uTime)) * 0.5
resetVelocity(uv, u) ==
    VScale(velocityHash3(<<uv[1] + u.uTime, uv[2] + u.uTime>>), 50, 1000)

\* main() of the velocity kernel for the texel at uv
computeVelocity(uv, posData, velocity, u, noise) ==
    LET force   == VAdd(VAdd(flowFieldForce(noise, u), mouseForce(posData.pos, u)),
                        VAdd(turbulenceForce(noise, u), centerForce(posData.pos)))
        applied == VAdd(velocity, VScale(force, u.uDeltaTime, 1000))
        damped  == VScale(applied, 1000 - u.uDamping * u.uDeltaTime, 1000)
        clamped == clampVelocity(damped, u)
    IN  IF posData.life <= 10000 THEN resetVelocity(uv, u) ELSE clamped

(***************************************************************************)
(* State.                                                                  *)
(***************************************************************************)
VARIABLES
    settings,             \* this.settings (the fields the kernels are given),
                          \* this.textureSize, this.count
    renderTargets,        \* variable.renderTargets[0..1], the four buffer instances
    currentTextureIndex,  \* gpuCompute.currentTextureIndex
    samplers,             \* variable.material.uniforms[dependency].value
    positionUniforms,     \* positionVariable.material.uniforms
    velocityUniforms,     \* velocityVariable.material.uniforms
    mousePosition,        \* this.mousePosition
    mouseActive,          \* this.mouseActive
    texturePosition,      \* this.material.uniforms.texturePosition.value
    pc,                   \* where update() stands: "idle", "compute", "bind"
    varIndex,             \* loop index i of gpuCompute.compute()
    passLog,              \* the passes of the update() in progress or last finished
    roleHist,             \* currentTextureIndex at construction and after each update()
    respawnLog,           \* per finished position pass, the texels it respawned
    steps,                \* update() calls begun
    invoked,              \* texels whose invocation of the pass in progress has run
    uPixelRatio,          \* this.material.uniforms.uPixelRatio.value, 1/100
    resizeListener,       \* this._handleResize is registered on window
    mesh,                 \* this.mesh
    initError,            \* what gpuCompute.init() returned
    allocated,            \* resources the renderer holds device memory for
    deallocations,        \* how often the renderer has freed each resource
    disposeCalls,         \* dispose() calls made
    isRunning,            \* Time: this.isRunning
    rafId,                \* Time: this.rafId
    pendingFrames,        \* animation frames requested, not yet fired or cancelled
    requested,            \* animation frames requested so far
    frame,                \* Time: this.frame
    tickPc,               \* position of the tick in progress
    stepsAtTick,          \* steps when the tick in progress began
    _isPaused,            \* Experience: this._isPaused
    thrown,               \* what the last pause() / resume() call threw
    atPause,              \* the simulation as the last pause() found it
    pausedTicks,          \* ticks run since the last pause() while paused
    listeners,            \* EventEmitter: this.listeners
    invocations,          \* calls of each callback so far
    emitStack             \* the emit() calls in progress, innermost last

\* the animation loop and the Experience's pause flag
loopVars == <<isRunning, rafId, pendingFrames, requested, frame, tickPc, stepsAtTick,
              _isPaused, thrown, atPause, pausedTicks>>

\* an event emitter
emitterVars == <<listeners, invocations, emitStack>>

\* the state outside the particle simulation
appVars == <<loopVars, emitterVars>>

vars == <<appVars, settings, renderTargets, currentTextureIndex, samplers, positionUniforms,
          velocityUniforms, mousePosition, mouseActive, texturePosition, pc,
          varIndex, passLog, roleHist, respawnLog, steps, invoked, uPixelRatio,
          resizeListener,
          mesh, initError, allocated, deallocations, disposeCalls>>

\* the state outside the compute pipeline: render material, listener, resources
hostVars == <<uPixelRatio, resizeListener, mesh, initError, allocated,
              deallocations, disposeCalls>>

\* the particle simulation and its host state
simVars == <<settings, renderTargets, currentTextureIndex, samplers, positionUniforms,
             velocityUniforms, mousePosition, mouseActive, texturePosition, pc,
             varIndex, passLog, roleHist, respawnLog, steps, invoked, hostVars>>

\* a uniform that holds no texture
null == <<>>

\* variant: the position variable is added first
variablesPositionFirst == <<"texturePosition", "textureVelocity">>

\* gpuCompute.variables, in the order of the addVariable() calls
variables == <<"textureVelocity", "texturePosition">>

\* setVariableDependencies(): both variables depend on both
dependencies(name) == {"texturePosition", "textureVelocity"}

\* the render target instance renderTargets[index] of a variable
Instance(name, index) == <<name, index>>

\* variant: the index sticks at 1
nextTextureIndexStuck == IF currentTextureIndex = 0 THEN 1 ELSE 1

\* compute(): this.currentTextureIndex === 0 ? 1 : 0
nextTextureIndex == IF currentTextureIndex = 0 THEN 1 ELSE 0

\* variant: the render target that is not current
getAlternateRenderTarget(name) == Instance(name, nextTextureIndex)

\* gpuCompute.getCurrentRenderTarget(variable)
getCurrentRenderTarget(name) == Instance(name, currentTextureIndex)

\* _fillPositionTexture: one texel from its Math.random() draws
fillPosition(seed) ==
    [pos  |-> spherePoint(<<seed.theta, seed.phi, seed.r>>, Trunc(boundsRadius * 5, 10)),
     life |-> seed.life * 1000]

\* _fillVelocityTexture: (Math.random() - 0.5) * 0.5 per component
fillVelocity(seed) == VScale(VSub(seed.v, <<500, 500, 500>>), 50, 1000)

\* the four buffer instances
Instances == {Instance(name, index) :
                name \in {"texturePosition", "textureVelocity"}, index \in 0 .. 1}

\* variant: the row of the reference taken from the column
referenceOfColumnOnly(i) ==
    << ((i % SizeAndCount.textureSize) * 1000 + 500) \div SizeAndCount.textureSize,
       ((i % SizeAndCount.textureSize) * 1000 + 500) \div SizeAndCount.textureSize >>

\* references[i * 2 + 0], references[i * 2 + 1]: (i % textureSize) / textureSize
\* + 0.5 / textureSize and floor(i / textureSize) / textureSize + 0.5 / textureSize
referenceOf(i) ==
    << ((i % SizeAndCount.textureSize) * 1000 + 500) \div SizeAndCount.textureSize,
       ((i \div SizeAndCount.textureSize) * 1000 + 500) \div SizeAndCount.textureSize >>

\* the 'reference' attribute: one uv per particle index
references == [i \in 0 .. (SizeAndCount.count - 1) |-> referenceOf(i)]

\* this.geometry (with its reference attribute) and this.material, as resources
\* of the renderer
Geometry == <<"geometry", references>>
Material == <<"material", 0>>

\* everything dispose() has to release
Resources == Instances \cup {Geometry, Material}

\* the texel of a variable's instance
Texel(targets, instance, t) == targets[instance[1]][instance[2]][t]

\* the uniform values the velocity kernel sees: uMousePosition refers to the
\* this.mousePosition object
velocityU == [velocityUniforms EXCEPT !.uMousePosition = mousePosition]

(***************************************************************************)
(* Construction: constructor, _initGPUComputation, gpuCompute.init().      *)
(***************************************************************************)
\* gpuCompute.init(): both instances of each variable take the variable's
\* initial texture
initialTargets(dtPosition, dtVelocity) ==
    [name \in {"texturePosition", "textureVelocity"} |->
       [index \in 0 .. 1 |->
          IF name = "texturePosition" THEN dtPosition ELSE dtVelocity]]

\* the initial textures _fillPositionTexture and _fillVelocityTexture write
seededTargets(offset) ==
    initialTargets([t \in Texels |-> fillPosition(SeedOf(offset, t))],
                   [t \in Texels |-> fillVelocity(SeedOf(offset, t))])

\* new Time(): the constructor calls start(), which runs the first tick and
\* requests the first frame (part_001 18-67); Experience: _isPaused = false
LoopConstructed ==
    /\ isRunning = TRUE
    /\ rafId = <<1>>
    /\ pendingFrames = {1}
    /\ requested = 1
    /\ frame = 1
    /\ tickPc = "idle"
    /\ stepsAtTick = 0
    /\ _isPaused = FALSE
    /\ thrown = <<>>
    /\ atPause = <<>>
    /\ pausedTicks = 0

\* new EventEmitter(): this.listeners = new Map()
EmitterConstructed ==
    /\ listeners = [e \in Events |-> {}]
    /\ invocations = [l \in Listeners |-> 0]
    /\ emitStack = <<>>

\* the constructor's assignments, given the options, what init() returned and
\* the render targets it left
Constructed(options, error, targets) ==
    /\ settings \in options
    /\ renderTargets = targets
    /\ currentTextureIndex = 0
    /\ samplers = [name \in {"texturePosition", "textureVelocity"} |->
                     [d \in dependencies(name) |-> null]]
    /\ positionUniforms = [uTime |-> 0, uDeltaTime |-> 16,
                           uBoundsRadius |-> boundsRadius,
                           uLifetimeMin |-> settings.lifetimeMin,
                           uLifetimeMax |-> settings.lifetimeMax]
    /\ velocityUniforms = [uTime |-> 0, uDeltaTime |-> 16,
                           uFlowFieldStrength |-> flowFieldStrength,
                           uMousePosition |-> "this.mousePosition",
                           uMouseRadius |-> mouseRadius,
                           uMouseStrength |-> mouseStrength,
                           uDamping |-> damping,
                           uTurbulence |-> turbulence,
                           uMaxVelocity |-> settings.maxVelocity]
    /\ mousePosition = <<0, 0, 0>>
    /\ mouseActive = FALSE
    /\ texturePosition = null
    /\ pc = "idle"
    /\ varIndex = 1
    /\ passLog = <<>>
    /\ roleHist = <<0>>
    /\ respawnLog = <<>>
    /\ steps = 0
    /\ LoopConstructed
    /\ EmitterConstructed
    /\ invoked = {}
    /\ uPixelRatio = Min(100, 200)
    /\ resizeListener = TRUE
    /\ mesh = <<"Points", Geometry, Material>>
    /\ initError = error
    /\ allocated = (IF error = null THEN Resources ELSE {Geometry, Material})
    /\ deallocations = [r \in Resources |-> 0]
    /\ disposeCalls = 0

Init == \E offset \in 0 .. (Len(SeedSamples) - 1) :
           Constructed(ConfigOptions, null, seededTargets(offset))

(***************************************************************************)
(* Particles.update(elapsedTime, deltaTime), in its steps.                 *)
(***************************************************************************)
\* lines 510-527: clamp deltaTime, write the kernels' uniforms
Update(elapsedTime, deltaTime) ==
    /\ UNCHANGED appVars
    /\ pc = "idle"
    /\ steps < MaxSteps
    /\ disposeCalls = 0
    /\ LET dt == Min(deltaTime, 100)
       IN  /\ positionUniforms' =
                [positionUniforms EXCEPT !.uTime = elapsedTime, !.uDeltaTime = dt]
           /\ velocityUniforms' =
                [velocityUniforms EXCEPT !.uTime = elapsedTime, !.uDeltaTime = dt]
    /\ pc' = "compute"
    /\ varIndex' = 1
    /\ passLog' = <<>>
    /\ steps' = steps + 1
    /\ UNCHANGED <<settings, renderTargets, currentTextureIndex, samplers,
                   mousePosition, mouseActive, texturePosition, roleHist, respawnLog>>
    /\ UNCHANGED <<hostVars, invoked>>

\* the texels a position pass reading the instances bound takes through its
\* reset branch
resetTexels(bound) ==
    {t \in Texels :
       LET posData  == Texel(renderTargets, bound["texturePosition"], t)
           velocity == Texel(renderTargets, bound["textureVelocity"], t)
       IN  shouldReset(posData.life - decayRate(uvOf(t), positionUniforms),
                       integratePosition(posData.pos, velocity, positionUniforms),
                       positionUniforms)}

\* the respawn log after a pass of variable name
loggedRespawns(name, bound) ==
    IF name = "texturePosition" THEN Append(respawnLog, resetTexels(bound))
    ELSE respawnLog

\* the output of one kernel pass over every texel, read through the samplers
KernelOutput(name, bound, noise) ==
    [t \in Texels |->
       LET posData  == Texel(renderTargets, bound["texturePosition"], t)
           velocity == Texel(renderTargets, bound["textureVelocity"], t)
       IN  IF name = "textureVelocity"
           THEN computeVelocity(uvOf(t), posData, velocity, velocityU, noise)
           ELSE computePosition(uvOf(t), posData, velocity, positionUniforms)]

\* the instance a pass binds to the sampler of dependency d:
\* depVar.renderTargets[currentTextureIndex]
DependencyTexture(d) == Instance(d, currentTextureIndex)

\* variant: a pass renders into the instance it reads
PassTargetCurrent(name) == Instance(name, currentTextureIndex)

\* the instance a pass of variable name renders into:
\* variable.renderTargets[nextTextureIndex]
PassTarget(name) == Instance(name, nextTextureIndex)

\* gpuCompute.compute(), one iteration of its loop over the variables: bind the
\* dependencies' current instances, render the kernel into the next instance
ComputePass ==
    /\ UNCHANGED appVars
    /\ pc = "compute"
    /\ initError = null
    /\ varIndex <= Len(variables)
    /\ LET name   == variables[varIndex]
           bound  == [d \in dependencies(name) |-> DependencyTexture(d)]
           target == PassTarget(name)
       IN  /\ samplers' = [samplers EXCEPT ![name] = bound]
           /\ \E noise \in (IF name = "textureVelocity" THEN NoiseSamples
                            ELSE {CHOOSE n \in NoiseSamples : TRUE}) :
                renderTargets' =
                  [renderTargets EXCEPT ![target[1]][target[2]] =
                                            KernelOutput(name, bound, noise)]
           /\ passLog' = Append(passLog,
                                [kernel |-> name,
                                 reads  |-> {bound[d] : d \in dependencies(name)},
                                 write  |-> target])
           /\ respawnLog' = loggedRespawns(name, bound)
    /\ varIndex' = varIndex + 1
    /\ UNCHANGED <<settings, currentTextureIndex, positionUniforms, velocityUniforms,
                   mousePosition, mouseActive, texturePosition, pc, roleHist, steps>>
    /\ UNCHANGED <<hostVars, invoked>>

\* gpuCompute.compute(), after the loop: the index flips for every variable
ComputeSwap ==
    /\ UNCHANGED appVars
    /\ pc = "compute"
    /\ varIndex > Len(variables)
    /\ currentTextureIndex' = nextTextureIndex
    /\ pc' = "bind"
    /\ UNCHANGED <<settings, renderTargets, samplers, positionUniforms,
                   velocityUniforms, mousePosition, mouseActive, texturePosition,
                   varIndex, passLog, roleHist, respawnLog, steps>>
    /\ UNCHANGED <<hostVars, invoked>>

\* lines 545-546: the render material takes the current position target
Bind ==
    /\ UNCHANGED appVars
    /\ pc = "bind"
    /\ texturePosition' = getCurrentRenderTarget("texturePosition")
    /\ roleHist' = Append(roleHist, currentTextureIndex)
    /\ pc' = "idle"
    /\ UNCHANGED <<settings, renderTargets, currentTextureIndex, samplers,
                   positionUniforms, velocityUniforms, mousePosition, mouseActive,
                   varIndex, passLog, respawnLog, steps>>
    /\ UNCHANGED <<hostVars, invoked>>

(***************************************************************************)
(* Pointer handlers.                                                       *)
(***************************************************************************)
setMousePosition(position) ==
    /\ UNCHANGED appVars
    /\ pc = "idle"
    /\ disposeCalls = 0
    /\ mousePosition' = position
    /\ mouseActive' = TRUE
    /\ UNCHANGED <<settings, renderTargets, currentTextureIndex, samplers,
                   positionUniforms, velocityUniforms, texturePosition, pc,
                   varIndex, passLog, roleHist, respawnLog, steps>>
    /\ UNCHANGED <<hostVars, invoked>>

clearMouse ==
    /\ UNCHANGED appVars
    /\ pc = "idle"
    /\ disposeCalls = 0
    /\ mousePosition' = <<0, 10000, 0>>
    /\ mouseActive' = FALSE
    /\ UNCHANGED <<settings, renderTargets, currentTextureIndex, samplers,
                   positionUniforms, velocityUniforms, texturePosition, pc,
                   varIndex, passLog, roleHist, respawnLog, steps>>
    /\ UNCHANGED <<hostVars, invoked>>

(***************************************************************************)
(* Window resize and disposal.                                             *)
(***************************************************************************)
\* variant: a resize also reallocates the buffers from the first seeding
_handleResizeReallocating(devicePixelRatio) ==
    /\ UNCHANGED appVars
    /\ pc = "idle"
    /\ resizeListener
    /\ uPixelRatio' = Min(devicePixelRatio, 200)
    /\ renderTargets' = seededTargets(0)
    /\ currentTextureIndex' = 0
    /\ UNCHANGED <<settings, samplers, positionUniforms, velocityUniforms,
                   mousePosition, mouseActive, texturePosition, pc, varIndex,
                   passLog, roleHist, respawnLog, steps, invoked, resizeListener, mesh,
                   initError, allocated, deallocations, disposeCalls>>

\* lines 483-485: the listener runs while it is registered; devicePixelRatio is
\* window.devicePixelRatio at the time of the event
_handleResize(devicePixelRatio) ==
    /\ UNCHANGED appVars
    /\ pc = "idle"
    /\ resizeListener
    /\ uPixelRatio' = Min(devicePixelRatio, 200)
    /\ UNCHANGED <<settings, renderTargets, currentTextureIndex, samplers,
                   positionUniforms, velocityUniforms, mousePosition, mouseActive,
                   texturePosition, pc, varIndex, passLog, roleHist, respawnLog, steps, invoked,
                   resizeListener, mesh, initError, allocated, deallocations,
                   disposeCalls>>

\* variant: every dispose() call on an object frees it again
DeallocatesAlways(r) == r \in Resources

\* object.dispose() dispatches 'dispose'; the renderer's listener for it is
\* attached while the renderer holds the object's memory, and detaches itself
\* when it frees it
Deallocates(r) == r \in allocated

\* what gpuCompute.getCurrentRenderTarget(variable) gives dispose(): the
\* current instance, or nothing when init() created no render targets
currentTargetOrNone(name) ==
    IF initError = null THEN {getCurrentRenderTarget(name)} ELSE {}

\* the objects dispose() calls .dispose() on
disposedObjects ==
    {Geometry, Material} \cup currentTargetOrNone("texturePosition")
                        \cup currentTargetOrNone("textureVelocity")

\* lines 623-641
dispose ==
    /\ UNCHANGED appVars
    /\ pc = "idle"
    /\ disposeCalls < MaxDisposeCalls
    /\ resizeListener' = FALSE
    /\ deallocations' =
         [r \in Resources |->
            IF r \in disposedObjects /\ Deallocates(r)
            THEN deallocations[r] + 1 ELSE deallocations[r]]
    /\ allocated' = allocated \ disposedObjects
    /\ disposeCalls' = disposeCalls + 1
    /\ UNCHANGED <<settings, renderTargets, currentTextureIndex, samplers,
                   positionUniforms, velocityUniforms, mousePosition, mouseActive,
                   texturePosition, pc, varIndex, passLog, roleHist, respawnLog, steps, invoked,
                   uPixelRatio, mesh, initError>>

Next ==
    \/ \E e \in ElapsedInputs, d \in DeltaInputs : Update(e, d)
    \/ ComputePass
    \/ ComputeSwap
    \/ Bind
    \/ \E p \in MouseInputs : setMousePosition(p)
    \/ clearMouse

Spec == Init /\ [][Next]_vars

(***************************************************************************)
(* The simulation with the host's resize events and dispose() calls.       *)
(***************************************************************************)
NextHost ==
    \/ \E e \in FrameElapsedInputs, d \in FrameDeltaInputs : Update(e, d)
    \/ ComputePass
    \/ ComputeSwap
    \/ Bind
    \/ \E r \in PixelRatioInputs : _handleResize(r)
    \/ dispose

HostSpec == Init /\ [][NextHost]_vars

(***************************************************************************)
(* Short-lived particles stepped with one deltaTime throughout.            *)
(***************************************************************************)
InitShortLived == \E offset \in 0 .. (Len(SeedSamples) - 1) :
                     Constructed(ShortLivedOptions, null, seededTargets(offset))

\* update() called with the deltaTime of the calls before it
UpdateConstantDelta(elapsedTime, deltaTime) ==
    /\ steps > 0 => Min(deltaTime, 100) = positionUniforms.uDeltaTime
    /\ Update(elapsedTime, deltaTime)

NextLifespan ==
    \/ \E e \in ElapsedInputs, d \in FrameDeltaInputs : UpdateConstantDelta(e, d)
    \/ ComputePass
    \/ ComputeSwap
    \/ Bind

LifespanSpec == InitShortLived /\ [][NextLifespan]_vars

(***************************************************************************)
(* The animation loop (Time), the App's tick listener and the Experience's *)
(* update listener with its pause flag, driving the simulation.            *)
(***************************************************************************)
\* what class Time and its base class EventEmitter define
TimeMethods ==
    {"start", "stop", "tick", "updateFPS", "getTimingData", "reset", "dispose",
     "on", "once", "off", "emit", "removeAllListeners", "listenerCount"}

\* this.app.time[name](): a TypeError when Time has no such method
callTime(name) ==
    IF name \in TimeMethods THEN null ELSE <<"TypeError", name>>

\* requestAnimationFrame(): the id of the frame it schedules
requestAnimationFrame == requested + 1

\* the runs stay within MaxFrames frames and MaxSteps steps
TickBound == requested < MaxFrames /\ (_isPaused \/ steps < MaxSteps)

\* variant: Experience._update without its pause test
emitTickIgnoringPause ==
    /\ tickPc' = "particles"
    /\ stepsAtTick' = steps
    /\ UNCHANGED pausedTicks

\* emit('tick'): App.update emits 'update', and Experience._update returns at
\* once when paused, and otherwise reaches this.world.particles.update
emitTick ==
    IF _isPaused
    THEN /\ tickPc' = "idle"
         /\ pausedTicks' = pausedTicks + 1
         /\ UNCHANGED stepsAtTick
    ELSE /\ tickPc' = "particles"
         /\ stepsAtTick' = steps
         /\ UNCHANGED pausedTicks

\* tick() of a running loop, pending being the frames pending when it is called
tick(pending) ==
    /\ rafId' = <<requestAnimationFrame>>
    /\ pendingFrames' = pending \cup {requestAnimationFrame}
    /\ requested' = requestAnimationFrame
    /\ frame' = frame + 1
    /\ emitTick

\* Time.start()
start ==
    /\ tickPc = "idle" /\ pc = "idle"
    /\ TickBound
    /\ IF isRunning
       THEN UNCHANGED <<isRunning, rafId, pendingFrames, requested, frame, tickPc,
                        stepsAtTick, pausedTicks>>
       ELSE isRunning' = TRUE /\ tick(pendingFrames)
    /\ UNCHANGED <<_isPaused, thrown, atPause, emitterVars, simVars>>

\* variant: Time.stop() without cancelAnimationFrame
stopKeepsFrame ==
    /\ tickPc = "idle" /\ pc = "idle"
    /\ IF ~isRunning
       THEN UNCHANGED <<isRunning, rafId, pendingFrames>>
       ELSE /\ isRunning' = FALSE
            /\ rafId' = null
            /\ UNCHANGED pendingFrames
    /\ UNCHANGED <<requested, frame, tickPc, stepsAtTick, pausedTicks, _isPaused,
                   thrown, atPause, emitterVars, simVars>>

\* Time.stop()
stop ==
    /\ tickPc = "idle" /\ pc = "idle"
    /\ IF ~isRunning
       THEN UNCHANGED <<isRunning, rafId, pendingFrames>>
       ELSE /\ isRunning' = FALSE
            /\ rafId' = null
            /\ pendingFrames' = (IF rafId # null THEN pendingFrames \ {rafId[1]}
                                 ELSE pendingFrames)
    /\ UNCHANGED <<requested, frame, tickPc, stepsAtTick, pausedTicks, _isPaused,
                   thrown, atPause, emitterVars, simVars>>

\* the browser runs the callback of pending frame f: () => this.tick()
FrameCallback(f) ==
    /\ tickPc = "idle" /\ pc = "idle"
    /\ f \in pendingFrames
    /\ TickBound
    /\ IF ~isRunning
       THEN /\ pendingFrames' = pendingFrames \ {f}
            /\ UNCHANGED <<rafId, requested, frame, tickPc, stepsAtTick, pausedTicks>>
       ELSE tick(pendingFrames \ {f})
    /\ UNCHANGED <<isRunning, _isPaused, thrown, atPause, emitterVars, simVars>>

\* Experience._update reaches this.world.particles.update(elapsedTime, deltaTime)
\* with the deltaTime Time.tick clamped
TickUpdate(elapsedTime, deltaTime) ==
    /\ tickPc = "particles"
    /\ steps = stepsAtTick
    /\ Update(elapsedTime, Min(deltaTime, 100))

\* the listeners have returned: the tick is over
TickEnd ==
    /\ tickPc = "particles" /\ pc = "idle"
    /\ steps # stepsAtTick
    /\ tickPc' = "idle"
    /\ UNCHANGED <<isRunning, rafId, pendingFrames, requested, frame, stepsAtTick,
                   _isPaused, thrown, atPause, pausedTicks, emitterVars, simVars>>

\* the simulation as pause() finds it
Snapshot ==
    << [steps |-> steps, renderTargets |-> renderTargets,
        currentTextureIndex |-> currentTextureIndex,
        texturePosition |-> texturePosition] >>

\* Experience.pause()
pause ==
    /\ tickPc = "idle" /\ pc = "idle"
    /\ _isPaused' = TRUE
    /\ thrown' = callTime("pause")
    /\ atPause' = Snapshot
    /\ pausedTicks' = 0
    /\ UNCHANGED <<isRunning, rafId, pendingFrames, requested, frame, tickPc,
                   stepsAtTick, emitterVars, simVars>>

\* Experience.resume()
resume ==
    /\ tickPc = "idle" /\ pc = "idle"
    /\ _isPaused' = FALSE
    /\ thrown' = callTime("resume")
    /\ UNCHANGED <<isRunning, rafId, pendingFrames, requested, frame, tickPc,
                   stepsAtTick, atPause, pausedTicks, emitterVars, simVars>>

InitLoop == Constructed(DefaultOptions, null, seededTargets(0))

NextLoop ==
    \/ start
    \/ stop
    \/ \E f \in pendingFrames : FrameCallback(f)
    \/ \E e \in FrameElapsedInputs, d \in FrameDeltaInputs : TickUpdate(e, d)
    \/ ComputePass
    \/ ComputeSwap
    \/ Bind
    \/ TickEnd
    \/ pause
    \/ resume

LoopSpec == InitLoop /\ [][NextLoop]_vars

(***************************************************************************)
(* EventEmitter (EventEmitter.js): on, once, off, emit, one listener       *)
(* invocation per step.                                                    *)
(***************************************************************************)
RECURSIVE SumOf(_, _)
SumOf(f, S) == IF S = {} THEN 0
               ELSE LET x == CHOOSE y \in S : TRUE IN f[x] + SumOf(f, S \ {x})

\* the callback has not been registered or invoked before
Fresh(callback) ==
    /\ \A e \in Events : \A l \in listeners[e] : l[2] # callback
    /\ \A l \in Listeners : l[2] = callback => invocations[l] = 0

\* this.listeners.get(event).add(callback)
registered(event, listener) ==
    [listeners EXCEPT ![event] = listeners[event] \cup {listener}]

\* off(event, callback): this.listeners.get(event).delete(callback)
off(event, listener) ==
    [listeners EXCEPT ![event] = listeners[event] \ {listener}]

\* on(event, callback), called outside any emit()
on(event, callback) ==
    /\ emitStack = <<>>
    /\ Fresh(callback)
    /\ listeners' = registered(event, <<"on", callback>>)
    /\ UNCHANGED <<invocations, emitStack, loopVars, simVars>>

\* once(event, callback): registers the closure onceCallback
once(event, callback) ==
    /\ emitStack = <<>>
    /\ Fresh(callback)
    /\ listeners' = registered(event, <<"once", callback>>)
    /\ UNCHANGED <<invocations, emitStack, loopVars, simVars>>

\* one emit() call in progress: the listeners forEach has visited, and the
\* listener whose callback is running a nested emit()
EmitCall(event) == [event |-> event, visited |-> {}, current |-> null]

\* emit(event) begins, called outside any emit()
emit(event) ==
    /\ emitStack = <<>>
    /\ SumOf(invocations, Listeners) < MaxCalls
    /\ emitStack' = <<EmitCall(event)>>
    /\ UNCHANGED <<listeners, invocations, loopVars, simVars>>

\* the innermost emit() call, and the listeners its forEach has yet to visit
Innermost == emitStack[Len(emitStack)]
Unvisited == listeners[Innermost.event] \ Innermost.visited

\* onceCallback: callback(...args); this.off(event, onceCallback). The listeners
\* right after the callback has returned, thrown or begun its emit(): only a
\* return reaches off()
onceCallback(listener, behaviour) ==
    IF listener[1] = "once" /\ behaviour = "returns"
    THEN off(Innermost.event, listener) ELSE listeners

\* forEach invokes the next listener inside try/catch
InvokeListener(listener, behaviour) ==
    /\ emitStack # <<>>
    /\ Innermost.current = null
    /\ listener \in Unvisited
    /\ behaviour = "emits" => Len(emitStack) < MaxDepth
    /\ invocations' = [invocations EXCEPT ![listener] = @ + 1]
    /\ listeners' = onceCallback(listener, behaviour)
    /\ emitStack' =
         LET seen == [Innermost EXCEPT !.visited = @ \cup {listener}]
         IN  IF behaviour = "emits"
             THEN Append([emitStack EXCEPT ![Len(emitStack)] =
                            [seen EXCEPT !.current = <<listener>>]],
                         EmitCall(Innermost.event))
             ELSE [emitStack EXCEPT ![Len(emitStack)] = seen]
    /\ UNCHANGED <<loopVars, simVars>>

\* forEach is through: emit() returns, into the callback that called it if it
\* is nested; that callback returns, and a onceCallback then reaches its off()
EmitReturns ==
    /\ emitStack # <<>>
    /\ Innermost.current = null
    /\ Unvisited = {}
    /\ LET outer == SubSeq(emitStack, 1, Len(emitStack) - 1)
       IN  IF outer = <<>>
           THEN emitStack' = outer /\ UNCHANGED listeners
           ELSE LET caller == outer[Len(outer)]
                IN  /\ emitStack' = [outer EXCEPT ![Len(outer)].current = null]
                    /\ listeners' =
                         (IF caller.current[1][1] = "once"
                          THEN off(caller.event, caller.current[1])
                          ELSE listeners)
    /\ UNCHANGED <<invocations, loopVars, simVars>>

NextEmitter ==
    \/ \E e \in Events, c \in Callbacks : on(e, c)
    \/ \E e \in Events, c \in Callbacks : once(e, c)
    \/ \E e \in Events : emit(e)
    \/ \E l \in Listeners, b \in Behaviours : InvokeListener(l, b)
    \/ EmitReturns

EmitterSpec == InitLoop /\ [][NextEmitter]_vars

(***************************************************************************)
(* The simulation constructed with invalid options.                        *)
(***************************************************************************)
InitInvalidConfig == \E offset \in 0 .. (Len(SeedSamples) - 1) :
                        Constructed(InvalidConfigOptions, null, seededTargets(offset))

InvalidConfigSpec == InitInvalidConfig /\ [][Next]_vars

(***************************************************************************)
(* The kernels as functions of their inputs: the buffers start with probe  *)
(* particles in place of the seeded ones, and the same update() runs.      *)
(***************************************************************************)
probeTargets(offset) ==
    initialTargets([t \in Texels |-> [pos  |-> ProbeOf(offset, t).pos,
                                      life |-> ProbeOf(offset, t).life * 1000]],
                   [t \in Texels |-> ProbeOf(offset, t).v])

KernelInit == \E offset \in 0 .. (Len(ProbeSamples) - 1) :
                 Constructed(ConfigOptions, null, probeTargets(offset))

NextKernel ==
    \/ \E e \in ElapsedInputs, d \in DeltaInputs : Update(e, d)
    \/ ComputePass
    \/ ComputeSwap
    \/ Bind

KernelSpec == KernelInit /\ [][NextKernel]_vars

(***************************************************************************)
(* The simulation from its seeding, and from buffers whose particles have  *)
(* drifted to the rim of the containment sphere.                           *)
(***************************************************************************)
driftedTargets(offset) ==
    initialTargets([t \in Texels |-> [pos  |-> DriftedOf(offset, t).pos,
                                      life |-> DriftedOf(offset, t).life * 1000]],
                   [t \in Texels |-> DriftedOf(offset, t).v])

InitDrifted == \E offset \in 0 .. (Len(DriftedSamples) - 1) :
                  Constructed(DefaultOptions, null, driftedTargets(offset))

ContainedSpec == (Init \/ InitDrifted) /\ [][NextKernel]_vars

(***************************************************************************)
(* A pass as its per-texel invocations: the device runs one invocation of  *)
(* the kernel per texel of the target, in any order.                       *)
(***************************************************************************)
\* the noise fields at a particle, functions of its position and of uTime
noiseAt(posData, u) ==
    LET samples == {n \in NoiseSamples : n.flow = <<0, 0, 0>>}
    IN  IF (posData.pos[1] + posData.pos[2] + posData.pos[3] + u.uTime) % 2 = 0
        THEN CHOOSE n \in samples : TRUE
        ELSE CHOOSE n \in NoiseSamples \ samples : TRUE

\* variant: the invocation samples the texel after its own
fragCoordTexelNeighbour(t) == (t + 1) % (TextureSize * TextureSize)

\* uv = gl_FragCoord.xy / resolution.xy: the texel the invocation samples
fragCoordTexel(t) == t

\* main() of the kernel of variable name, invoked for texel t
Invocation(name, bound, t) ==
    LET posData  == Texel(renderTargets, bound["texturePosition"], fragCoordTexel(t))
        velocity == Texel(renderTargets, bound["textureVelocity"], fragCoordTexel(t))
    IN  IF name = "textureVelocity"
        THEN computeVelocity(uvOf(t), posData, velocity, velocityU,
                             noiseAt(posData, velocityU))
        ELSE computePosition(uvOf(t), posData, velocity, positionUniforms)

\* one invocation of the pass in progress writes its texel of the target
InvokeTexel(t) ==
    /\ UNCHANGED appVars
    /\ pc = "compute"
    /\ initError = null
    /\ varIndex <= Len(variables)
    /\ t \notin invoked
    /\ LET name   == variables[varIndex]
           bound  == [d \in dependencies(name) |-> DependencyTexture(d)]
           target == PassTarget(name)
       IN  /\ samplers' = [samplers EXCEPT ![name] = bound]
           /\ renderTargets' =
                [renderTargets EXCEPT ![target[1]][target[2]][t] =
                                          Invocation(name, bound, t)]
    /\ invoked' = invoked \cup {t}
    /\ UNCHANGED <<settings, currentTextureIndex, positionUniforms, velocityUniforms,
                   mousePosition, mouseActive, texturePosition, pc, varIndex,
                   passLog, roleHist, respawnLog, steps, hostVars>>

\* the pass is over when every texel's invocation has run
PassEnd ==
    /\ UNCHANGED appVars
    /\ pc = "compute"
    /\ varIndex <= Len(variables)
    /\ invoked = Texels
    /\ LET name == variables[varIndex]
       IN  /\ passLog' = Append(passLog,
                                [kernel |-> name,
                                 reads  |-> {DependencyTexture(d) : d \in dependencies(name)},
                                 write  |-> PassTarget(name)])
           /\ respawnLog' = loggedRespawns(name, [d \in dependencies(name) |->
                                                    DependencyTexture(d)])
    /\ varIndex' = varIndex + 1
    /\ invoked' = {}
    /\ UNCHANGED <<settings, renderTargets, currentTextureIndex, samplers,
                   positionUniforms, velocityUniforms, mousePosition, mouseActive,
                   texturePosition, pc, roleHist, steps, hostVars>>

NextOrder ==
    \/ \E e \in FrameElapsedInputs, d \in FrameDeltaInputs : Update(e, d)
    \/ \E t \in Texels : InvokeTexel(t)
    \/ PassEnd
    \/ ComputeSwap
    \/ Bind

OrderSpec == Init /\ [][NextOrder]_vars

(***************************************************************************)
(* Construction when gpuCompute.init() returns an error: init() returns    *)
(* before it creates a render target, _initGPUComputation logs the error,  *)
(* and the constructor carries on.                                         *)
(***************************************************************************)
\* the errors init() returns (an error message; null is no error)
InitErrors == {<<"No support for vertex shader textures.">>}

\* variable.renderTargets of both variables stays []
noTargets == [name \in {"texturePosition", "textureVelocity"} |-> <<>>]

InitFailed == \E error \in InitErrors : Constructed(ConfigOptions, error, noTargets)

\* gpuCompute.compute() without render targets: the first
\* depVar.renderTargets[currentTextureIndex].texture is a TypeError, which
\* leaves update() after the uniforms were written
ComputeThrows ==
    /\ UNCHANGED appVars
    /\ pc = "compute"
    /\ initError # null
    /\ pc' = "idle"
    /\ UNCHANGED <<settings, renderTargets, currentTextureIndex, samplers,
                   positionUniforms, velocityUniforms, mousePosition, mouseActive,
                   texturePosition, varIndex, passLog, roleHist, respawnLog, steps>>
    /\ UNCHANGED <<hostVars, invoked>>

NextFailed ==
    \/ \E e \in ElapsedInputs, d \in DeltaInputs : Update(e, d)
    \/ ComputeThrows
    \/ \E p \in MouseInputs : setMousePosition(p)
    \/ clearMouse
    \/ \E r \in PixelRatioInputs : _handleResize(r)
    \/ dispose

FailedInitSpec == InitFailed /\ [][NextFailed]_vars

(***************************************************************************)
(* Vocabulary of the properties.                                           *)
(***************************************************************************)
\* the kernels of the passes logged so far
PassKernels == [k \in 1 .. Len(passLog) |-> passLog[k].kernel]

\* both passes of the update() in progress (or last finished) have run; until the
\* next update() begins, the instances they read and wrote are as they left them
BothPassesDone == Len(passLog) = 2

\* the instance of variable name that pass k read
ReadOf(k, name) == CHOOSE r \in passLog[k].reads : r[1] = name

\* texel t as the position pass read it, and as it wrote it
PosBefore(t) == Texel(renderTargets, ReadOf(2, "texturePosition"), t)
PosAfter(t) == Texel(renderTargets, passLog[2].write, t)

\* texel t of the velocity instance the velocity pass of this step wrote
VelWritten(t) == Texel(renderTargets, passLog[1].write, t)

\* the position pass respawned texel t
Respawned(t) ==
    /\ PosAfter(t).life = 1000000
    /\ 100 * lengthSq(PosAfter(t).pos)
         <= 9 * positionUniforms.uBoundsRadius * positionUniforms.uBoundsRadius

\* the lifetime of texel t after the decay of the position pass
Decayed(t) == PosBefore(t).life - decayRate(uvOf(t), positionUniforms)

(***************************************************************************)
(* C1: every update() runs exactly one velocity pass, then exactly one     *)
(* position pass, and swaps the roles of both buffer pairs only after     *)
(* both passes: while passes run the index is the one the step began      *)
(* with, and once it has flipped both passes are logged, in that order,   *)
(* and the current instance of each pair is the one written in this step. *)
(***************************************************************************)
C1_PassesThenSwap ==
    /\ pc = "compute" =>
         /\ currentTextureIndex = roleHist[Len(roleHist)]
         /\ PassKernels = SubSeq(<<"textureVelocity", "texturePosition">>, 1, Len(passLog))
    /\ (pc = "bind" \/ (pc = "idle" /\ steps > 0)) =>
         /\ PassKernels = <<"textureVelocity", "texturePosition">>
         /\ passLog[1].write = Instance("textureVelocity", currentTextureIndex)
         /\ passLog[2].write = Instance("texturePosition", currentTextureIndex)
    /\ pc = "bind" => currentTextureIndex # roleHist[Len(roleHist)]

C1_Witness == pc = "idle" /\ steps = 2 /\ Len(passLog) = 2

(***************************************************************************)
(* C2: in every step the position pass integrates position with the       *)
(* velocity the velocity pass of the same step wrote: the position texel  *)
(* written is the position kernel applied to the previous position and    *)
(* the new velocity.                                                       *)
(***************************************************************************)
C2_FreshVelocity ==
    BothPassesDone =>
      \A t \in Texels :
        PosAfter(t) = computePosition(uvOf(t), PosBefore(t), VelWritten(t),
                                      positionUniforms)

(***************************************************************************)
(* C3: in every reachable state every particle's lifetime, in every       *)
(* buffer instance, lies in [0, 1].                                        *)
(***************************************************************************)
C3_LifetimeInUnitInterval ==
    \A index \in 0 .. 1, t \in Texels :
      LET life == renderTargets["texturePosition"][index][t].life
      IN  0 <= life /\ life <= 1000000

(***************************************************************************)
(* C4: after every velocity pass every particle's velocity magnitude is   *)
(* at most the configured maxVelocity.                                     *)
(***************************************************************************)
C4_VelocityClamped ==
    Len(passLog) >= 1 =>
      \A t \in Texels :
        lengthSq(VelWritten(t)) <= settings.maxVelocity * settings.maxVelocity

(***************************************************************************)
(* C5: after any position pass no particle of the written instance, nor   *)
(* of the instance bound to the render material, has lifetime <= 0; a     *)
(* particle whose decayed lifetime is <= 0 leaves the pass with 1.0.      *)
(***************************************************************************)
C5_NoDeadParticle ==
    /\ BothPassesDone =>
         \A t \in Texels :
           /\ PosAfter(t).life > 0
           /\ Decayed(t) <= 0 => PosAfter(t).life = 1000000
    /\ texturePosition # null =>
         \A t \in Texels : Texel(renderTargets, texturePosition, t).life > 0

C5_Witness ==
    /\ BothPassesDone
    /\ texturePosition = passLog[2].write
    /\ \E t \in Texels : Decayed(t) <= 0 /\ PosAfter(t).life = 1000000

(***************************************************************************)
(* C6: no pass writes an instance it reads.                                *)
(***************************************************************************)
C6_NoReadWriteSameInstance ==
    \A k \in 1 .. Len(passLog) :
      /\ passLog[k].write \notin passLog[k].reads
      /\ passLog[k].reads = {samplers[passLog[k].kernel][d] :
                               d \in dependencies(passLog[k].kernel)}

C6_Witness == steps = 2 /\ Len(passLog) = 2

(***************************************************************************)
(* C7: ping-pong round trip.  After one step the read index (the instance *)
(* read of either pair) is the other one, after two steps it is the same. *)
(***************************************************************************)
C7_PingPongRoundTrip ==
    \A k \in 1 .. Len(roleHist) :
      /\ k + 1 <= Len(roleHist) =>
           \A name \in {"texturePosition", "textureVelocity"} :
             Instance(name, roleHist[k + 1]) # Instance(name, roleHist[k])
      /\ k + 2 <= Len(roleHist) =>
           \A name \in {"texturePosition", "textureVelocity"} :
             Instance(name, roleHist[k + 2]) = Instance(name, roleHist[k])

C7_Witness == Len(roleHist) = 3 /\ pc = "idle"

(***************************************************************************)
(* C8: after every update() the render material holds the instance that   *)
(* update's position pass wrote, and no pass of the next update() writes   *)
(* the instance the material holds before that update() has rebound it.   *)
(***************************************************************************)
C8_BoundTextureStable ==
    /\ (pc = "idle" /\ steps > 0) => texturePosition = passLog[2].write
    /\ pc \in {"compute", "bind"} =>
         \A k \in 1 .. Len(passLog) : passLog[k].write # texturePosition

C8_Witness == pc = "bind" /\ steps = 2 /\ texturePosition # null

(***************************************************************************)
(* C9: a particle whose lifetime is <= 0 when the position pass evaluates *)
(* it (so any particle entering with lifetime <= 0 and deltaTime >= 0)    *)
(* leaves the pass with lifetime 1.0 and |position| <= 0.3 boundsRadius.  *)
(***************************************************************************)
C9_ExpiredParticleRespawns ==
    BothPassesDone =>
      \A t \in Texels :
        (\/ Decayed(t) <= 0
         \/ (PosBefore(t).life <= 0 /\ positionUniforms.uDeltaTime >= 0))
        => Respawned(t)

C9_Witness ==
    /\ BothPassesDone
    /\ positionUniforms.uDeltaTime >= 0
    /\ \E t \in Texels : PosBefore(t).life <= 0 /\ Respawned(t)
    /\ \E t \in Texels :
         /\ PosBefore(t).life > 0 /\ Decayed(t) <= 0 /\ Respawned(t)
         /\ PosAfter(t).pos # <<0, 0, 0>>

(***************************************************************************)
(* C10, as stated: a particle entering a position pass with lifetime      *)
(* 0.005 and deltaTime 0.016 is respawned in that pass, at every          *)
(* reference address.                                                      *)
(***************************************************************************)
C10_ScenarioAlwaysRespawns ==
    BothPassesDone =>
      \A t \in Texels :
        (PosBefore(t).life = 5000 /\ positionUniforms.uDeltaTime = 16)
        => Respawned(t)

(***************************************************************************)
(* C10, amended: such a particle is respawned exactly when its lifespan   *)
(* mix(lifetimeMin, lifetimeMax, hash(uv)) is at most 3.2 s or its        *)
(* integrated position lies beyond 1.5 boundsRadius; otherwise it leaves  *)
(* the pass alive, with lifetime 0.005 - 0.016 / lifespan > 0.            *)
(***************************************************************************)
C10_ScenarioRespawnsWithinLifespan ==
    BothPassesDone =>
      \A t \in Texels :
        (PosBefore(t).life = 5000 /\ positionUniforms.uDeltaTime = 16) =>
          LET L      == mix(settings.lifetimeMin, settings.lifetimeMax, hash(uvOf(t)))
              moved  == VAdd(PosBefore(t).pos,
                             VScale(Texel(renderTargets, ReadOf(2, "textureVelocity"), t),
                                    16, 1000))
              beyond == 4 * lengthSq(moved) > 9 * boundsRadius * boundsRadius
          IN  IF L <= 3200 \/ beyond
              THEN Respawned(t)
              ELSE /\ PosAfter(t).life = 5000 - (16000000 \div L)
                   /\ PosAfter(t).life > 0
                   /\ PosAfter(t).pos = moved

C10_Witness ==
    /\ BothPassesDone
    /\ positionUniforms.uDeltaTime = 16
    /\ \E t \in Texels :
         /\ PosBefore(t).life = 5000
         /\ lifespan(uvOf(t), positionUniforms) <= 3200
         /\ Respawned(t)

(***************************************************************************)
(* Vocabulary of the position kernel's distance rule.                      *)
(***************************************************************************)
\* texel t of the velocity instance the position pass read
VelRead(t) == Texel(renderTargets, ReadOf(2, "textureVelocity"), t)

\* the position of texel t after integration, before the reset test
Moved(t) == integratePosition(PosBefore(t).pos, VelRead(t), positionUniforms)

\* |p| > 1.5 uBoundsRadius
Beyond(p) ==
    4 * lengthSq(p) > 9 * positionUniforms.uBoundsRadius * positionUniforms.uBoundsRadius

C12_DeltaTimeAtMostTenth ==
    /\ positionUniforms.uDeltaTime <= 100
    /\ velocityUniforms.uDeltaTime <= 100

\* a stalled frame (250 ms) has been passed in and both passes have run
C12_Witness ==
    /\ BothPassesDone
    /\ positionUniforms.uDeltaTime = 100
    /\ velocityUniforms.uDeltaTime = 100
    /\ 250 \in DeltaInputs

(***************************************************************************)
(* C13: after dispose() returns none of the four buffer instances is      *)
(* still held by the renderer.                                             *)
(***************************************************************************)
C13_AllInstancesReleased ==
    disposeCalls > 0 => Instances \cap allocated = {}

(***************************************************************************)
(* C14: dispose() is idempotent.  No resource (buffer instance, geometry, *)
(* material) is freed more than once however often dispose() is called,   *)
(* and a call after the first changes nothing: what the first call left   *)
(* released or held stays so, and the objects a call dereferences are     *)
(* still there, so the call runs through.                                  *)
(***************************************************************************)
C14_DisposeIdempotent ==
    /\ \A r \in Resources : deallocations[r] <= 1
    /\ disposeCalls >= 1 =>
         /\ ~resizeListener
         /\ mesh # null
         /\ allocated = Instances \ disposedObjects
         /\ \A r \in Resources : deallocations[r] = 1 <=> r \notin allocated

C14_Witness ==
    /\ disposeCalls = 2
    /\ steps > 0
    /\ deallocations[Geometry] = 1
    /\ deallocations[getCurrentRenderTarget("texturePosition")] = 1

(***************************************************************************)
(* C15: if gpuCompute.init() returns an error, construction fails: no     *)
(* simulation with a mesh, a registered resize listener and a callable    *)
(* update() comes into existence.                                          *)
(***************************************************************************)
C15_FailedInitIsFatal ==
    initError # null => (mesh = null /\ ~resizeListener /\ steps = 0)

(***************************************************************************)
(* C16: an invalid configuration is rejected at construction, so no       *)
(* simulation runs its passes with lifetimeMin > lifetimeMax or with a    *)
(* particle count that is not a perfect square.                            *)
(***************************************************************************)
C16_InvalidConfigRejected ==
    BothPassesDone =>
      /\ positionUniforms.uLifetimeMin <= positionUniforms.uLifetimeMax
      /\ \E n \in 0 .. settings.count : n * n = settings.count

(***************************************************************************)
(* C17: a viewport resize changes only the render-side pixel ratio.  In   *)
(* every state count = textureSize x textureSize and every buffer         *)
(* instance holds one texel per particle, and a step that changes         *)
(* uPixelRatio leaves textureSize, count, both buffer pairs and their     *)
(* contents, the buffer roles, the bound position texture and all kernel  *)
(* parameters as they were.                                                *)
(***************************************************************************)
C17_ResizeOnlyPixelRatio ==
    /\ [](/\ settings.count = settings.textureSize * settings.textureSize
          /\ \A instance \in Instances :
               Cardinality(DOMAIN renderTargets[instance[1]][instance[2]])
                 = settings.count)
    /\ [][uPixelRatio' # uPixelRatio =>
            UNCHANGED <<settings, renderTargets, currentTextureIndex, samplers,
                        positionUniforms, velocityUniforms, mousePosition,
                        texturePosition>>]_vars

\* a resize at device pixel ratio 3 after two steps (construction is at ratio 1)
C17_Witness ==
    /\ uPixelRatio = 200
    /\ steps = 2
    /\ BothPassesDone
    /\ pc = "idle"

(***************************************************************************)
(* C18: two simulations constructed with identical configuration hold     *)
(* identical buffers after construction (and, driven alike, after every   *)
(* step): the buffers of a simulation just constructed are the buffers of *)
(* any construction with its configuration, whatever Math.random() drew.  *)
(***************************************************************************)
C18_SameConfigSameBuffers ==
    (steps = 0 /\ initError = null) =>
      \A offset \in 0 .. (Len(SeedSamples) - 1) :
        renderTargets = seededTargets(offset)

(***************************************************************************)
(* C19: texel-order independence.  In whatever order the invocations of a *)
(* pass run, each texel they have written is the kernel applied to that   *)
(* same texel of the instances the pass reads and to the step's uniforms, *)
(* and the buffer a finished pass leaves is that function of the read     *)
(* instances at every texel.                                               *)
(***************************************************************************)
C19_TexelOrderIndependence ==
    LET own(name, reads, t) ==
          LET bound == [d \in dependencies(name) |->
                          CHOOSE r \in reads : r[1] = d]
              posData == Texel(renderTargets, bound["texturePosition"], t)
          IN  KernelOutput(name, bound, noiseAt(posData, velocityU))[t]
    IN  /\ (pc = "compute" /\ varIndex <= Len(variables)) =>
             \A t \in invoked :
               Texel(renderTargets, PassTarget(variables[varIndex]), t)
                 = own(variables[varIndex],
                       {DependencyTexture(d) : d \in {"texturePosition", "textureVelocity"}},
                       t)
        /\ \A k \in 1 .. Len(passLog) :
             \A t \in Texels :
               Texel(renderTargets, passLog[k].write, t)
                 = own(passLog[k].kernel, passLog[k].reads, t)

\* the last texel's invocation has run before any other, in the position pass
\* of the second step
C19_Witness ==
    /\ pc = "compute"
    /\ steps = 2
    /\ varIndex = 2
    /\ invoked = {TextureSize * TextureSize - 1}

(***************************************************************************)
(* Vocabulary of two consecutive steps.  After the velocity pass of a     *)
(* step and before its position pass, the current position instance is    *)
(* what the previous step's position pass wrote and the other instance is *)
(* still what that pass read.                                              *)
(***************************************************************************)
VelocityPassOfNextStepDone == steps >= 2 /\ pc = "compute" /\ Len(passLog) = 1

PrevBefore(t) ==
    Texel(renderTargets, Instance("texturePosition", nextTextureIndex), t)

PrevAfter(t) ==
    Texel(renderTargets, Instance("texturePosition", currentTextureIndex), t)

\* the previous step's position pass respawned texel t
RespawnedInPreviousStep(t) ==
    /\ PrevBefore(t).life # 1000000
    /\ PrevAfter(t).life = 1000000
    /\ 100 * lengthSq(PrevAfter(t).pos)
         <= 9 * positionUniforms.uBoundsRadius * positionUniforms.uBoundsRadius

(***************************************************************************)
(* C20: whenever the position pass of step t respawns a particle, the     *)
(* velocity pass of step t+1 overwrites its velocity with the reset       *)
(* vector hash3(uv + uTime) * 0.5.                                         *)
(***************************************************************************)
C20_RespawnResetsVelocity ==
    VelocityPassOfNextStepDone =>
      \A t \in Texels :
        RespawnedInPreviousStep(t) =>
          VelWritten(t) = resetVelocity(uvOf(t), velocityU)

(***************************************************************************)
(* Vocabulary of the velocity pass.                                        *)
(***************************************************************************)
\* texel t of the position instance the velocity pass read
VelPassPosition(t) == Texel(renderTargets, ReadOf(1, "texturePosition"), t)

\* the containment force as specified: beyond boundsRadius, toward the origin,
\* scaled by smoothstep(boundsRadius, 3 boundsRadius, |position|) * 0.5
specifiedContainment(position) ==
    LET d2 == lengthSq(position)
    IN  IF d2 > boundsRadius * boundsRadius
        THEN LET toCenter     == VScale(position, -1000, CeilSqrt(d2))
                 pullStrength == Trunc(smoothstep(boundsRadius, 3 * boundsRadius,
                                                  FloorSqrt(d2)) * 500, 1000)
             IN  VScale(toCenter, pullStrength, 10000)
        ELSE <<0, 0, 0>>

(***************************************************************************)
(* C21: the containment force the velocity kernel adds is zero for every  *)
(* particle with |position| <= boundsRadius and is the force toward the   *)
(* origin scaled by smoothstep(boundsRadius, 3 boundsRadius, |position|)  *)
(* * 0.5 when |position| > boundsRadius, boundsRadius being the value the *)
(* simulation was constructed with.                                        *)
(***************************************************************************)
C21_ContainmentFromBoundsRadius ==
    Len(passLog) >= 1 =>
      \A t \in Texels :
        centerForce(VelPassPosition(t).pos) = specifiedContainment(VelPassPosition(t).pos)

(***************************************************************************)
(* Vocabulary of lifespans and respawns.                                   *)
(***************************************************************************)
\* the lifespan of texel t in ms, from its reference address and the options
LifespanOf(t) == mix(settings.lifetimeMin, settings.lifetimeMax, hash(uvOf(t)))

\* ceil(lifespan / deltaTime): the steps a full lifetime lasts at most
StepsToExpire(t) ==
    (LifespanOf(t) + positionUniforms.uDeltaTime - 1) \div positionUniforms.uDeltaTime

\* the position passes finished so far, and the last of them that respawned t
\* (0 when none did)
PositionPasses == Len(respawnLog)
LastRespawn(t) ==
    LET js == {j \in 1 .. PositionPasses : t \in respawnLog[j]}
    IN  IF js = {} THEN 0 ELSE CHOOSE j \in js : \A m \in js : m <= j

MeshReferences == mesh[2][2]

\* the texel texture(texturePosition, reference) fetches: floor(uv * size)
sampledTexel(uv) ==
    (uv[1] * settings.textureSize) \div 1000
      + settings.textureSize * ((uv[2] * settings.textureSize) \div 1000)

\* ((i mod N + 0.5) / N, (floor(i / N) + 0.5) / N)
specifiedReference(i) ==
    << ((2 * (i % settings.textureSize) + 1) * 1000) \div (2 * settings.textureSize),
       ((2 * (i \div settings.textureSize) + 1) * 1000) \div (2 * settings.textureSize) >>

(***************************************************************************)
(* C23: the reference address of particle i is ((i mod N + 0.5) / N,       *)
(* (floor(i / N) + 0.5) / N), inside [0, 1) x [0, 1); it stays what the    *)
(* construction made it through updates, resizes and disposal; and every  *)
(* one of the N * N texels is fetched by exactly one particle index.       *)
(***************************************************************************)
C23_ReferenceAddresses ==
    mesh # null =>
      /\ DOMAIN MeshReferences = 0 .. (settings.count - 1)
      /\ \A i \in DOMAIN MeshReferences :
           /\ MeshReferences[i] = specifiedReference(i)
           /\ \A c \in 1 .. 2 : 0 <= MeshReferences[i][c] /\ MeshReferences[i][c] < 1000
           /\ sampledTexel(MeshReferences[i]) \in Texels
      /\ \A t \in Texels :
           Cardinality({i \in DOMAIN MeshReferences :
                          sampledTexel(MeshReferences[i]) = t}) = 1

\* after a step, a resize and a disposal the first particle of the second row
\* still refers to the first texel of the second row
C23_Witness ==
    /\ mesh # null
    /\ steps >= 1
    /\ disposeCalls >= 1
    /\ uPixelRatio # 100
    /\ MeshReferences[settings.textureSize]
         = <<1000 \div (2 * settings.textureSize), 3000 \div (2 * settings.textureSize)>>
    /\ sampledTexel(MeshReferences[settings.textureSize]) = settings.textureSize

(***************************************************************************)
(* Vocabulary of the pointer.                                              *)
(***************************************************************************)
\* the far-away position clearMouse() parks the pointer at: (0, 100, 0)
sentinel == <<0, 10000, 0>>

\* the velocity pass of the update() in progress has run; the pointer handlers
\* run between updates, so mouseActive is what that update() began with
VelocityPassRan == pc # "idle" /\ Len(passLog) >= 1

(***************************************************************************)
(* C24: while the pointer is inactive (mouseActive = false: from           *)
(* construction until the first setMousePosition, and after clearMouse)    *)
(* the attractor the velocity kernel is handed is the far-away sentinel   *)
(* and the point-interaction force of every particle is zero.              *)
(***************************************************************************)
C24_InactivePointerNoForce ==
    (VelocityPassRan /\ ~mouseActive) =>
      /\ velocityU.uMousePosition = sentinel
      /\ \A t \in Texels :
           mouseForce(VelPassPosition(t).pos, velocityU) = <<0, 0, 0>>

\* the value of the object the kernel's uMousePosition parameter refers to
attractor == velocityU.uMousePosition

\* a step that begins an update()
UpdateBegins == pc = "idle" /\ pc' = "compute"

(***************************************************************************)
(* C25: the pointer position a step uses is a snapshot taken at update():  *)
(* the pointer handlers replace the pointer value as a whole and never     *)
(* mutate in place the object the kernel's attractor parameter refers to, *)
(* so the value of that object changes only when an update() begins, and  *)
(* is then the pointer position of that moment.                            *)
(***************************************************************************)
C25_AttractorIsSnapshot ==
    [][ /\ attractor' # attractor => UpdateBegins
        /\ UpdateBegins => attractor' = mousePosition ]_vars

(***************************************************************************)
(* C26: however Time.start(), Time.stop() and the animation-frame          *)
(* callbacks interleave, at most one frame callback is pending, a tick     *)
(* has triggered at most one Particles.update(), and an update begins     *)
(* only inside a tick, when no other update is in progress.                *)
(***************************************************************************)
C26_OneFrameOneUpdate ==
    /\ [](Cardinality(pendingFrames) <= 1)
    /\ [](tickPc # "idle" => steps - stepsAtTick \in {0, 1})
    /\ [][steps' # steps =>
            (tickPc = "particles" /\ pc = "idle" /\ steps = stepsAtTick)]_vars

\* ticks have run, a frame is pending, and the tick in progress has run its one
\* update, the second of the run
C26_Witness ==
    /\ isRunning
    /\ requested >= 3
    /\ steps = 2
    /\ Cardinality(pendingFrames) = 1
    /\ tickPc = "particles" /\ pc = "idle"
    /\ steps = stepsAtTick + 1

(***************************************************************************)
(* C27: a listener registered with once(event, callback) is invoked at     *)
(* most once, whatever emits follow, including emits from inside a         *)
(* listener of the same event and listeners that throw.                    *)
(***************************************************************************)
C27_OnceInvokedAtMostOnce ==
    \A c \in Callbacks : invocations[<<"once", c>>] <= 1

(***************************************************************************)
(* Vocabulary of the renderer's view.                                      *)
(***************************************************************************)
\* |p| <= 1.5 boundsRadius
Contained(p) == 4 * lengthSq(p) <= 9 * boundsRadius * boundsRadius

\* texel t of the current position instance: the seeds after construction, what
\* the last step wrote after a step
CurrentPosition(t) ==
    Texel(renderTargets, getCurrentRenderTarget("texturePosition"), t)

(***************************************************************************)
(* C28: in every state the renderer can observe, after seeding and after   *)
(* every step, every particle has |position| <= 1.5 boundsRadius: between *)
(* updates every particle of the current position instance is within that *)
(* radius, and so is every particle of the texture bound to the render     *)
(* material, at all times.                                                 *)
(***************************************************************************)
C28_ParticlesContained ==
    /\ pc = "idle" => \A t \in Texels : Contained(CurrentPosition(t).pos)
    /\ texturePosition # null =>
         \A t \in Texels : Contained(Texel(renderTargets, texturePosition, t).pos)

\* after a step with deltaTime 0.1, bound to the material: a particle at the
\* rim whose integrated position lay beyond 1.5 boundsRadius was respawned with
\* lifetime left, and another has moved and stayed within
C28_Witness ==
    /\ pc = "idle" /\ steps >= 1
    /\ positionUniforms.uDeltaTime = 100
    /\ texturePosition = getCurrentRenderTarget("texturePosition")
    /\ \E t \in Texels :
         /\ Contained(PosBefore(t).pos) /\ Decayed(t) > 0
         /\ Beyond(Moved(t)) /\ Respawned(t)
    /\ \E t \in Texels :
         /\ PosAfter(t).pos = Moved(t) /\ Moved(t) # PosBefore(t).pos

(***************************************************************************)
(* C29: between Experience.pause() and the next resume() no frame tick     *)
(* executes a particle step: the buffers, the roles of the pairs and the   *)
(* texture bound to the material are what pause() found, and every tick    *)
(* ends without an update; a tick that runs while the Experience is not    *)
(* paused, the first one after resume() included, reaches the particle     *)
(* update and ends only after that one step.                               *)
(***************************************************************************)
C29_PausedNoStep ==
    /\ [](_isPaused =>
            (atPause = Snapshot /\ pc = "idle" /\ tickPc = "idle"))
    /\ [][(frame' # frame /\ ~_isPaused) => tickPc' = "particles"]_vars
    /\ [][(tickPc = "particles" /\ tickPc' = "idle") => steps = stepsAtTick + 1]_vars

\* ticks have run while paused, and after resume() a tick has stepped the
\* particles
C29_Witness ==
    /\ ~_isPaused
    /\ atPause # null
    /\ pausedTicks >= 1
    /\ tickPc = "particles" /\ pc = "idle"
    /\ steps = atPause[1].steps + 1

(***************************************************************************)
(* C30: Experience.pause() and Experience.resume() return normally: every *)
(* method they invoke on the Time object exists, so no call has thrown.    *)
(***************************************************************************)
C30_PauseResumeReturn ==
    thrown = null

=============================================================================
